---- MODULE Spec2Model ----
(***************************************************************************)
(* Model of the driving simulation of src/app/page.tsx: the closure state  *)
(* of the game effect (lines 266-323), the key handlers (325-336), the     *)
(* frame callback animate (354-488), the model upload (35-74) and the      *)
(* effect re-run its dependency list causes (94-540).                      *)
(*                                                                         *)
(* Numbers are fixed point, since the source computes in floating point:   *)
(*   time                         milliseconds   (deltaTime 0.016 -> 16)   *)
(*   velocity, position, length   tenths         (0.1 -> 1)                *)
(*   speed (the displayed speed)  hundredths     (60 -> 6000)              *)
(*   intensities, grips, factors  thousandths    (0.3 -> 300)              *)
(*   angles                       milliradians   (Math.PI -> 3142)         *)
(*   throttle (acceleration)      quarters       (1 -> 4, -0.5 -> -2)      *)
(* Every product is divided back with RDiv, which rounds to nearest.       *)
(***************************************************************************)
EXTENDS Integers, Sequences, FiniteSets, TLC

----------------------------------------------------------------------------
(* Arithmetic helpers *)

Min(a, b) == IF a < b THEN a ELSE b

Max(a, b) == IF a > b THEN a ELSE b

Abs(a) == IF a < 0 THEN -a ELSE a

\* a / b rounded to the nearest integer (b > 0), halves away from zero
RDiv(a, b) == IF a >= 0 THEN (2 * a + b) \div (2 * b)
                        ELSE -((2 * (-a) + b) \div (2 * b))

RECURSIVE ISqrtIter(_, _)
ISqrtIter(n, x) == LET y == (x + n \div x) \div 2
                   IN  IF y >= x THEN x ELSE ISqrtIter(n, y)

\* Math.sqrt, rounded down
ISqrt(n) == IF n <= 0 THEN 0 ELSE ISqrtIter(n, n)

PI == 3142

TWO_PI == 6283

\* Math.sin on [0, PI] in thousandths (Bhaskara's rational approximation,
\* exact at 0, PI/2 and PI)
SinHalf(x) == LET q == (x * (PI - x)) \div 4
              IN  RDiv(1000 * q, RDiv(12340205 - 4 * q, 16))

\* Math.sin of an angle in milliradians, in thousandths
Sin(a) == LET x == a % TWO_PI
          IN  IF x <= PI THEN SinHalf(x) ELSE -SinHalf(Min(x - PI, PI))

\* Math.cos of an angle in milliradians, in thousandths
Cos(a) == Sin(a + 1571)

\* Math.atan2 of a point given by its polar angle: the angle in (-PI, PI]
WrapAngle(a) == ((a + 3141) % TWO_PI) - 3141

\* THREE.Vector3.length() of a vector of the ground plane
Length(v) == ISqrt(v[1] * v[1] + v[2] * v[2])

\* THREE.Vector3.multiplyScalar(f / den)
Scale(v, f, den) == <<RDiv(v[1] * f, den), RDiv(v[2] * f, den)>>

\* THREE.Vector3.add
VAdd(v, w) == <<v[1] + w[1], v[2] + w[2]>>

\* THREE.Vector3.normalize(), components in thousandths
Normalize(v) == LET len == Length(v)
                IN  IF len = 0 THEN <<0, 0>>
                    ELSE <<RDiv(v[1] * 1000, len), RDiv(v[2] * 1000, len)>>

\* (0,0,1).applyQuaternion(car.quaternion): the car's forward axis <<x, z>>
ForwardDirection(rotY) == <<Sin(rotY), Cos(rotY)>>

\* (1,0,0).applyQuaternion(car.quaternion): the car's right axis <<x, z>>
LateralDirection(rotY) == <<Cos(rotY), -Sin(rotY)>>

----------------------------------------------------------------------------
(* Program constants *)

maxSpeedByGear == <<60, 100, 150, 200, 280, 350>>

aiCarPositions == << [angle |-> 500,  radius |-> 100],
                     [angle |-> 1000, radius |-> 105],
                     [angle |-> 1500, radius |-> 95],
                     [angle |-> 2000, radius |-> 110] >>

\* line 78
numPoints == 32

\* line 84: the radius of centerline point i (counted from 0), in thousandths
radiusVariationWide(i) ==
    180000 + Sin(RDiv(2 * i * TWO_PI, numPoints)) * 30
           + Cos(RDiv(4 * i * TWO_PI, numPoints)) * 8

radiusVariation(i) ==
    180000 + Sin(RDiv(2 * i * TWO_PI, numPoints)) * 15
           + Cos(RDiv(4 * i * TWO_PI, numPoints)) * 8

\* lines 76-92: the centerline, each point (cos(angle) * radius,
\* sin(angle) * radius) kept as its angle and its radius
generateRandomTrack ==
    [n \in 1..numPoints |->
        [ angle  |-> RDiv((n - 1) * TWO_PI, numPoints),
          radius |-> radiusVariation(n - 1) ]]

\* Math.sqrt(x * x + z * z) of the point (cos(angle) * radius,
\* sin(angle) * radius): the magnitude of its radius, in thousandths
Distance(p) == Abs(p.radius)

\* the point <<x, z>> in tenths
Cartesian(p) == <<RDiv(Cos(p.angle) * (p.radius \div 100), 1000),
                  RDiv(Sin(p.angle) * (p.radius \div 100), 1000)>>

\* line 302: trackPoints[0], at angle 0 with radius 180 + 0*15 + 1*8
trackPoints0 == Cartesian(generateRandomTrack[1])

NoModel == <<"null", 0>>

PlayerCar == <<"playerCar", 0>>

Gears == 1..6

----------------------------------------------------------------------------
(* The frame callback animate, block by block *)

\* lines 362-367: the throttle the drive keys ask for, before boost
BaseThrottle(k) == IF "keys" \in k \/ "arrowdown" \in k THEN -2
                   ELSE IF "keyw" \in k \/ "arrowup" \in k THEN 4
                   ELSE 0

\* line 371: either shift key multiplies acceleration by 1.5
Acceleration(k) == IF "shiftleft" \in k \/ "shiftright" \in k
                   THEN (BaseThrottle(k) * 3) \div 2
                   ELSE BaseThrottle(k)

\* lines 363, 368-369
Steering(k) == IF "keyd" \in k \/ "arrowright" \in k THEN -1
               ELSE IF "keya" \in k \/ "arrowleft" \in k THEN 1
               ELSE 0

\* lines 364, 370
IsHandbraking(k) == "space" \in k

\* lines 373-375
CameraMode(mode, k) == IF "keyc" \in k
                       THEN (IF mode = "TPP" THEN "FPP" ELSE "TPP")
                       ELSE mode

\* lines 377-381
HandbrakeNoClamp(h, held, d) == IF held THEN h + d * 3 ELSE h - d * 4

HandbrakeSlowRamp(h, held, d) == IF held THEN Min(h + d * 2, 1000)
                                 ELSE Max(h - d * 3, 0)

HandbrakeStep(h, held, d) == IF held THEN Min(h + d * 3, 1000)
                             ELSE Max(h - d * 4, 0)

\* line 386, in quarters
EngineForce(acc, g) == acc * (30 + g * 10)

\* lines 391-397: velocity.add(forward * engineForce * deltaTime)
ApplyEngine(v, acc, g, rotY, d) ==
    IF acc # 0
    THEN VAdd(v, Scale(ForwardDirection(rotY), EngineForce(acc, g) * d, 400000))
    ELSE v

\* line 399
DragInverted(v) == Scale(v, 100, 98)

Drag(v) == Scale(v, 98, 100)

\* lines 401-403
NoSpeedCap(v, g) == v

SpeedCap(v, g) ==
    IF v[1] * v[1] + v[2] * v[2] > (maxSpeedByGear[g] * 10) * (maxSpeedByGear[g] * 10)
    THEN Scale(Normalize(v), maxSpeedByGear[g], 100)
    ELSE v

\* lines 405-424: the heading, the drift factor and the lateral velocity
\* after the steering block
Steer(v, lat, rotY, drift, h, st, d) ==
    LET len == Length(v) IN
    IF len > 1 /\ st # 0
    THEN LET steerAmount == RDiv(st * d * Min(len, 300), 300)
             speedFactor == Min(len * 2, 1000)
             df          == RDiv(speedFactor * (1000 + 2 * h), 1000)
             newRot      == rotY + RDiv(steerAmount * (10000 + 8 * h), 10000)
             push        == RDiv(RDiv(RDiv(df * len, 1000) * d, 1000)
                                   * (5000 + 7 * h), 10000)
         IN  [ rotationY       |-> newRot,
               driftFactor     |-> df,
               lateralVelocity |->
                   IF df > 200 \/ h > 300
                   THEN VAdd(lat, Scale(LateralDirection(newRot), st * push, 1000))
                   ELSE lat ]
    ELSE [ rotationY |-> rotY, driftFactor |-> drift, lateralVelocity |-> lat ]

\* lines 389, 426
LateralDecay(lat, h) == Scale(lat, 700 - RDiv(h * 6, 10), 1000)

\* lines 428-429
Integrate(pos, v, lat, d) == VAdd(pos, Scale(VAdd(v, lat), d, 1000))

\* lines 431-435
HandbrakeVelocity(v, h) == IF h > 0 THEN Scale(v, 850 + RDiv(h, 10), 1000) ELSE v

HandbrakeLateral(lat, h) == IF h > 0 THEN Scale(lat, 500 + RDiv(h * 3, 10), 1000) ELSE lat

\* line 437, in hundredths
Speed(v) == Length(v) * 25

\* line 438
Rpm(v, g) == Min(800 + RDiv(Length(v) * 1500, maxSpeedByGear[g]), 7000)

\* lines 440-446: the gear and rpm after the automatic transition
ShiftUp(g, sp, k) == ~("keyu" \in k) /\ sp > maxSpeedByGear[g] * 90 /\ g < 6

ShiftDownAboveSecond(g, sp, k) ==
    ~("keyu" \in k) /\ sp < maxSpeedByGear[g] * 40 /\ g > 2

ShiftDown(g, sp, k) == ~("keyu" \in k) /\ sp < maxSpeedByGear[g] * 40 /\ g > 1

AutoGear(g, sp, k) == IF ShiftUp(g, sp, k) THEN g + 1
                      ELSE IF ShiftDown(g, sp, k) THEN g - 1
                      ELSE g

AutoRpm(g, sp, k, r) == IF ShiftUp(g, sp, k) THEN 2500
                        ELSE IF ShiftDown(g, sp, k) THEN 4500
                        ELSE r

\* lines 448-456: one AI car, index counted from 0
AiStep(car, index, d) ==
    LET newAngle == car.angle + RDiv((400 + index * 100) * d, 1000)
    IN  [ angle     |-> WrapAngle(newAngle),
          radius    |-> 100 + (IF index % 2 = 0 THEN -8 ELSE 8),
          rotationY |-> newAngle + 1571 ]

\* lines 490-508: the uploaded model takes the pose of the car it replaces
ReplaceCarModel(s, model) ==
    [s EXCEPT !.currentCarRef = model,
              !.position = s.position,
              !.rotationY = s.rotationY]

\* lines 354-488: one frame, from the closure state s, the key table k and
\* the clock delta d, with the model and flag the effect closed over
Animate(s, k, d, model, loaded) ==
    LET s0   == IF model # NoModel /\ loaded /\ s.currentCarRef # model
                THEN ReplaceCarModel(s, model) ELSE s
        acc  == Acceleration(k)
        st   == Steering(k)
        hb   == IsHandbraking(k)
        h    == HandbrakeStep(s0.handbrakeIntensity, hb, d)
        g    == s0.gear
        v1   == SpeedCap(Drag(ApplyEngine(s0.velocity, acc, g, s0.rotationY, d)), g)
        turn == Steer(v1, s0.lateralVelocity, s0.rotationY, s0.driftFactor, h, st, d)
        lat1 == LateralDecay(turn.lateralVelocity, h)
        pos  == Integrate(s0.position, v1, lat1, d)
        v2   == HandbrakeVelocity(v1, h)
        lat2 == HandbrakeLateral(lat1, h)
        sp   == Speed(v2)
    IN  [ deltaTime          |-> d,
          currentCarRef      |-> s0.currentCarRef,
          acceleration       |-> acc,
          steering           |-> st,
          isHandbraking      |-> hb,
          currentCameraMode  |-> CameraMode(s0.currentCameraMode, k),
          handbrakeIntensity |-> h,
          engineForce        |-> EngineForce(acc, g),
          velocity           |-> v2,
          lateralVelocity    |-> lat2,
          driftFactor        |-> turn.driftFactor,
          rotationY          |-> turn.rotationY,
          position           |-> pos,
          speed              |-> sp,
          gear               |-> AutoGear(g, sp, k),
          rpm                |-> AutoRpm(g, sp, k, Rpm(v2, g)),
          aiCars             |-> [i \in 1..Len(s0.aiCars) |-> AiStep(s0.aiCars[i], i - 1, d)] ]

\* lines 266-321: the closure state a run of the effect starts from
InitialClosure ==
    [ deltaTime          |-> 0,
      currentCarRef      |-> PlayerCar,
      acceleration       |-> 0,
      steering           |-> 0,
      isHandbraking      |-> FALSE,
      currentCameraMode  |-> "TPP",
      handbrakeIntensity |-> 0,
      engineForce        |-> 0,
      velocity           |-> <<0, 0>>,
      lateralVelocity    |-> <<0, 0>>,
      driftFactor        |-> 0,
      rotationY          |-> 0,
      position           |-> trackPoints0,
      speed              |-> 0,
      gear               |-> 1,
      rpm                |-> 800,
      aiCars             |-> [i \in 1..Len(aiCarPositions) |->
                                [ angle     |-> aiCarPositions[i].angle,
                                  radius    |-> aiCarPositions[i].radius,
                                  rotationY |-> aiCarPositions[i].angle + 1571 ]] ]

\* line 333
ShiftNoWrap(g) == g + 1

ManualShift(g) == IF g >= 6 THEN 1 ELSE g + 1

----------------------------------------------------------------------------
(* State *)

VARIABLES
    keys,                \* line 323: the codes whose entry of keys is true
    deltaTime,           \* line 356: the clock delta the last frame used
    currentCarRef,       \* line 306
    velocity,            \* line 311, <<x, z>>
    lateralVelocity,     \* line 312, <<x, z>>
    acceleration,        \* line 313
    steering,            \* line 314
    speed,               \* line 315
    gear,                \* line 316
    rpm,                 \* line 317
    isHandbraking,       \* line 318
    currentCameraMode,   \* line 319
    driftFactor,         \* line 320
    handbrakeIntensity,  \* line 321
    engineForce,         \* line 386, of the last frame
    position,            \* currentCarRef.position, <<x, z>>
    rotationY,           \* currentCarRef.rotation.y
    aiCars,              \* line 266: each car's polar position and heading
    trackPoints,         \* line 147: the centerline the effect generated
    carModel,            \* line 22: React state
    isModelLoaded,       \* line 23: React state
    depCarModel,         \* line 540: the carModel the running effect closed over
    depIsModelLoaded,    \* line 540: the isModelLoaded it closed over
    ticks,               \* history: frames run by requestAnimationFrame
    keysRead,            \* history: the key table as the previous frame read it
    shifted,             \* history: a manual shift was made since the previous frame
    heldFor,             \* history: ms of the current run of frames with the handbrake held
    releasedFor,         \* history: ms of the current run of frames with it released
    idleFrames           \* history: frames in a row run at rest with the gear key up

closureVars == << deltaTime, currentCarRef, velocity, lateralVelocity, acceleration,
                  steering, speed, gear, rpm, isHandbraking, currentCameraMode,
                  driftFactor, handbrakeIntensity, engineForce, position, rotationY,
                  aiCars >>

reactVars == << carModel, isModelLoaded, depCarModel, depIsModelLoaded >>

historyVars == << ticks, keysRead, shifted, heldFor, releasedFor, idleFrames >>

vars == << keys, trackPoints, closureVars, reactVars, historyVars >>

\* the closure state as one record
Closure ==
    [ deltaTime          |-> deltaTime,
      currentCarRef      |-> currentCarRef,
      acceleration       |-> acceleration,
      steering           |-> steering,
      isHandbraking      |-> isHandbraking,
      currentCameraMode  |-> currentCameraMode,
      handbrakeIntensity |-> handbrakeIntensity,
      engineForce        |-> engineForce,
      velocity           |-> velocity,
      lateralVelocity    |-> lateralVelocity,
      driftFactor        |-> driftFactor,
      rotationY          |-> rotationY,
      position           |-> position,
      speed              |-> speed,
      gear               |-> gear,
      rpm                |-> rpm,
      aiCars             |-> aiCars ]

\* the closure state becomes n
Becomes(n) ==
    /\ deltaTime' = n.deltaTime
    /\ currentCarRef' = n.currentCarRef
    /\ acceleration' = n.acceleration
    /\ steering' = n.steering
    /\ isHandbraking' = n.isHandbraking
    /\ currentCameraMode' = n.currentCameraMode
    /\ handbrakeIntensity' = n.handbrakeIntensity
    /\ engineForce' = n.engineForce
    /\ velocity' = n.velocity
    /\ lateralVelocity' = n.lateralVelocity
    /\ driftFactor' = n.driftFactor
    /\ rotationY' = n.rotationY
    /\ position' = n.position
    /\ speed' = n.speed
    /\ gear' = n.gear
    /\ rpm' = n.rpm
    /\ aiCars' = n.aiCars

\* lines 94-540: a run of the effect up to and including its call of
\* animate (line 537); the fresh clock's first delta is 0
EffectRun(model, loaded) == Animate(InitialClosure, {}, 0, model, loaded)

Init ==
    /\ keys = {}
    /\ trackPoints = generateRandomTrack
    /\ carModel = NoModel
    /\ isModelLoaded = FALSE
    /\ depCarModel = NoModel
    /\ depIsModelLoaded = FALSE
    /\ LET n == EffectRun(NoModel, FALSE)
       IN  /\ deltaTime = n.deltaTime
           /\ currentCarRef = n.currentCarRef
           /\ acceleration = n.acceleration
           /\ steering = n.steering
           /\ isHandbraking = n.isHandbraking
           /\ currentCameraMode = n.currentCameraMode
           /\ handbrakeIntensity = n.handbrakeIntensity
           /\ engineForce = n.engineForce
           /\ velocity = n.velocity
           /\ lateralVelocity = n.lateralVelocity
           /\ driftFactor = n.driftFactor
           /\ rotationY = n.rotationY
           /\ position = n.position
           /\ speed = n.speed
           /\ gear = n.gear
           /\ rpm = n.rpm
           /\ aiCars = n.aiCars
    /\ ticks = 0
    /\ keysRead = {}
    /\ shifted = FALSE
    /\ heldFor = 0
    /\ releasedFor = 0
    /\ idleFrames = 0

\* the car stands still, no throttle is asked for and the gear key is up
AtRest == velocity = <<0, 0>> /\ BaseThrottle(keys) = 0 /\ ~("keyu" \in keys)

----------------------------------------------------------------------------
(* Operations *)

\* lines 325-327
handleKeyDown(code) ==
    /\ keys' = keys \cup {code}
    /\ UNCHANGED << trackPoints, closureVars, reactVars, historyVars >>

\* lines 329-336
handleKeyUp(code) ==
    /\ keys' = keys \ {code}
    /\ IF code = "keyu"
       THEN /\ gear' = ManualShift(gear)
            /\ rpm' = 3000
       ELSE UNCHANGED << gear, rpm >>
    /\ UNCHANGED << deltaTime, currentCarRef, velocity, lateralVelocity, acceleration,
                    steering, speed, isHandbraking, currentCameraMode, driftFactor,
                    handbrakeIntensity, engineForce, position, rotationY, aiCars >>
    /\ shifted' = (shifted \/ code = "keyu")
    /\ UNCHANGED << trackPoints, reactVars, ticks, keysRead, heldFor, releasedFor,
                    idleFrames >>

\* lines 354-488: a frame requested at line 484, with clock delta d
animate(d) ==
    /\ Becomes(Animate(Closure, keys, d, depCarModel, depIsModelLoaded))
    /\ ticks' = ticks + 1
    /\ keysRead' = keys
    /\ shifted' = FALSE
    /\ heldFor' = IF IsHandbraking(keys) THEN Min(heldFor + d, 1000) ELSE 0
    /\ releasedFor' = IF IsHandbraking(keys) THEN 0 ELSE Min(releasedFor + d, 1000)
    /\ idleFrames' = IF AtRest THEN (IF shifted THEN 1 ELSE Min(idleFrames + 1, 5)) ELSE 0
    /\ UNCHANGED << keys, trackPoints, reactVars >>

\* lines 35-74: a .glb file loads; lines 60-61 set the React state
handleFileUpload ==
    /\ carModel' = <<"glb", carModel[2] + 1>>
    /\ isModelLoaded' = TRUE
    /\ UNCHANGED << keys, trackPoints, closureVars, depCarModel, depIsModelLoaded, historyVars >>

\* lines 94-540: React re-runs the effect when a dependency of line 540 has
\* changed: cleanup (510-533), then the body with a new closure
useEffect ==
    /\ << depCarModel, depIsModelLoaded >> # << carModel, isModelLoaded >>
    /\ depCarModel' = carModel
    /\ depIsModelLoaded' = isModelLoaded
    /\ keys' = {}
    /\ trackPoints' = generateRandomTrack
    /\ Becomes(EffectRun(carModel, isModelLoaded))
    /\ keysRead' = {}
    /\ shifted' = FALSE
    /\ heldFor' = 0
    /\ releasedFor' = 0
    /\ idleFrames' = 0
    /\ UNCHANGED << carModel, isModelLoaded, ticks >>

----------------------------------------------------------------------------
(* Specifications: the same operations under different sets of inputs *)

MaxTicks == 2

MaxUploads == 1

KeyCodes == {"keyw", "keyu"}

Deltas == {100, 1000}

\* the session: throttle, gear key, frames and a model upload
Next ==
    \/ \E code \in KeyCodes : handleKeyDown(code)
    \/ \E code \in KeyCodes : handleKeyUp(code)
    \/ \E d \in Deltas : ticks < MaxTicks /\ animate(d)
    \/ carModel[2] < MaxUploads /\ handleFileUpload
    \/ useEffect

Spec == Init /\ [][Next]_vars

MaxCabinTicks == 5

CabinKeyCodes == {"space", "keyc"}

CabinDeltas == {0, 16, 100, 250}

\* the handbrake and the camera key
CabinNext ==
    \/ \E code \in CabinKeyCodes : handleKeyDown(code)
    \/ \E code \in CabinKeyCodes : handleKeyUp(code)
    \/ \E d \in CabinDeltas : ticks < MaxCabinTicks /\ animate(d)

SpecCabin == Init /\ [][CabinNext]_vars

MaxDriveTicks == 2

DriveKeyCodes == {"keyw", "keys", "shiftleft", "keya"}

DriveDeltas == {16, 1000}

\* throttle, brake, boost and steering, gears shifting automatically
DriveNext ==
    \/ \E code \in DriveKeyCodes : handleKeyDown(code)
    \/ \E code \in DriveKeyCodes : handleKeyUp(code)
    \/ \E d \in DriveDeltas : ticks < MaxDriveTicks /\ animate(d)

SpecDrive == Init /\ [][DriveNext]_vars

MaxLaunchTicks == 40

LaunchDeltas == {10, 16, 33, 50, 100, 250, 500, 1000}

\* a launch: the throttle key goes down at rest and stays down, and every
\* frame comes with the same clock delta
LaunchNext ==
    \/ keys = {} /\ ticks = 0 /\ handleKeyDown("keyw")
    \/ \E d \in LaunchDeltas :
          /\ keys = {"keyw"}
          /\ ticks < MaxLaunchTicks
          /\ ticks = 0 \/ d = deltaTime
          /\ animate(d)

SpecLaunch == Init /\ [][LaunchNext]_vars

MaxCoastTicks == 3

CoastKeyCodes == {"keyw", "keya", "space"}

CoastDeltas == {100, 1000}

\* throttle, steering and handbrake, each pressed and let go at will
CoastNext ==
    \/ \E code \in CoastKeyCodes : handleKeyDown(code)
    \/ \E code \in CoastKeyCodes : handleKeyUp(code)
    \/ \E d \in CoastDeltas : ticks < MaxCoastTicks /\ animate(d)

SpecCoast == Init /\ [][CoastNext]_vars

MaxIdleTicks == 6

IdleKeyCodes == {"keyu"}

IdleDeltas == {16, 100}

\* the gear key alone, on a car that never moves
IdleNext ==
    \/ \E code \in IdleKeyCodes : handleKeyDown(code)
    \/ \E code \in IdleKeyCodes : handleKeyUp(code)
    \/ \E d \in IdleDeltas : ticks < MaxIdleTicks /\ animate(d)

SpecIdle == Init /\ [][IdleNext]_vars

----------------------------------------------------------------------------
(* Claims *)

\* a step of animate: only a frame advances the frame count
Frame == ticks' = ticks + 1

\* C1: in every reachable state gear is an integer of 1..6, whatever the
\* interleaving of frames, key presses and key releases.
GearInRange == gear \in Gears

\* C1 witness: a frame has run, the car moves, and a release of the gear
\* key has cycled gear 6 round to gear 1
GearWrapped == ticks > 0 /\ speed > 0 /\ shifted /\ gear = 1 /\ rpm = 3000

\* C2: the frame that follows a manual shift applies no automatic
\* transition: at its end gear still is the cycled value.
ManualShiftKept == [][(Frame /\ shifted) => gear' = gear]_vars

\* C3: the camera mode is unchanged in every frame that reads the camera
\* key held when the previous frame read it held too.
CameraToggleOnEdge ==
    [][(Frame /\ "keyc" \in keysRead /\ "keyc" \in keys)
          => currentCameraMode' = currentCameraMode]_vars

\* the vehicle state C4 names
VehicleState == << position, rotationY, velocity, lateralVelocity, gear, rpm,
                   handbrakeIntensity, currentCameraMode >>

\* C4: the step that replaces the car in the scene leaves the vehicle state
\* as it was.
SwapKeepsVehicleState ==
    [][currentCarRef' # currentCarRef => VehicleState' = VehicleState]_vars

\* C5 as stated: in a launch the displayed speed never decreases and never
\* exceeds maxSpeedByGear[1].
LaunchBelowFirstGearCap ==
    [][speed' >= speed /\ speed' <= maxSpeedByGear[1] * 100]_vars

\* C5 as amended: in a launch the displayed speed never decreases, and after
\* each frame it is at most 2.5 times maxSpeedByGear of the gear the frame
\* ran in (the cap of lines 401-403 bounds the velocity, not the display).
LaunchBelowGearCap ==
    [][Frame => /\ speed' >= speed
                /\ speed' <= maxSpeedByGear[gear] * 250]_vars

\* C5 witness: the launch has shifted up to gear 6 and sits on its cap
LaunchPlateau == /\ keys = {"keyw"}
                 /\ ticks > 0
                 /\ gear = 6
                 /\ speed = maxSpeedByGear[6] * 250

\* C6: in a frame whose throttle is zero or negative the engine force is
\* the force of that throttle, whether or not a boost key is held.
BoostOnlyForward ==
    [][(Frame /\ BaseThrottle(keys) <= 0)
          => engineForce' = EngineForce(BaseThrottle(keys), gear)]_vars

\* the largest elapsed time C7 lets a frame use: 0.1 s (the source sets none)
dtMax == 1000 \div 10

\* C7: the elapsed time a frame uses lies in [0, dtMax].
DeltaClamped == deltaTime \in 0..dtMax

\* C8: every AI car is at the radius aiCarPositions gave it.
AiRadiusFixed ==
    \A i \in 1..Len(aiCars) : aiCars[i].radius = aiCarPositions[i].radius

\* C9: in every reachable state handbrakeIntensity lies in [0, 1].
HandbrakeInRange == handbrakeIntensity \in 0..1000

\* C9 witness: the handbrake stays held past the full ramp and the
\* intensity sits on the upper clamp
HandbrakeSaturated == /\ isHandbraking
                      /\ heldFor * 3 > 1000 + deltaTime * 3
                      /\ deltaTime > 0
                      /\ handbrakeIntensity = 1000

\* C10: held through frames that add up to 1/3 s the intensity is 1 and
\* stays 1; released through frames that add up to 1/4 s it is 0 and stays 0.
HandbrakeBoundedResponse ==
    /\ heldFor * 3 >= 1000 => handbrakeIntensity = 1000
    /\ releasedFor * 4 >= 1000 => handbrakeIntensity = 0

\* C10 witness: the frame in which the time held first adds up to 1/3 s
\* leaves the intensity at 1
HandbrakeFullyApplied == /\ isHandbraking
                         /\ heldFor * 3 >= 1000
                         /\ heldFor * 3 < 1000 + deltaTime * 3
                         /\ handbrakeIntensity = 1000

\* the square of velocity.length()
LengthSq(v) == v[1] * v[1] + v[2] * v[2]

\* C11: a frame with zero throttle and zero steer, with the handbrake held
\* or not, ends with a velocity no longer than the one it started with.
CoastDecays ==
    [][(Frame /\ BaseThrottle(keys) = 0 /\ Steering(keys) = 0)
          => LengthSq(velocity') <= LengthSq(velocity)]_vars

\* C11 witness: a frame without throttle and steer has run on a car that
\* moves across both axes with the handbrake partly applied
CoastedAcross == /\ ticks > 0
                 /\ acceleration = 0
                 /\ steering = 0
                 /\ velocity[1] # 0
                 /\ velocity[2] # 0
                 /\ handbrakeIntensity > 0

\* C12: the generated centerline has exactly 32 points, each at a distance
\* from the origin in [180 - (15 + 8), 180 + (15 + 8)] = [157, 203].
TrackWithinBand ==
    /\ Len(trackPoints) = 32
    /\ \A n \in 1..Len(trackPoints) :
          /\ Distance(trackPoints[n]) >= 157000
          /\ Distance(trackPoints[n]) <= 203000

\* C12 witness: the effect has run again for an uploaded model and its
\* centerline touches the inner bound at point 12 (angle 3*PI/4)
TrackTouchesInnerBound == /\ depCarModel # NoModel
                          /\ Len(trackPoints) = 32
                          /\ Distance(trackPoints[13]) = 157000

\* C13: every frame applies the automatic transition rule to the gear it
\* started in and the speed it computed, also while the gear key is held:
\* up by one with rpm 2500 above 0.9 of the gear's maximum speed, else down
\* by one with rpm 4500 below 0.4 of it, else no change of gear.
AutoShiftRule ==
    [][Frame =>
          IF gear < 6 /\ speed' > maxSpeedByGear[gear] * 90
          THEN gear' = gear + 1 /\ rpm' = 2500
          ELSE IF gear > 1 /\ speed' < maxSpeedByGear[gear] * 40
          THEN gear' = gear - 1 /\ rpm' = 4500
          ELSE gear' = gear]_vars

\* C14: a frame run at rest with the gear key up lowers a gear above 1 by
\* one and leaves gear 1 alone, undoing a manual upshift made before it; after
\* five such frames in a row with no shift between them the gear is 1, and
\* it stays 1 until the next manual shift.
IdleDownshift ==
    /\ []((idleFrames >= 5 /\ ~shifted) => gear = 1)
    /\ [][(Frame /\ AtRest) => gear' = Max(gear - 1, 1)]_vars

\* C14 witness: shifted up to gear 6 at rest, the car is back in gear 1 with
\* the fifth frame, which made the last downshift
IdleBackInFirst == idleFrames = 5 /\ gear = 1 /\ rpm = 4500

====
